---- MODULE Spec2Model ----
(***************************************************************************)
(* ProtractorBuilder (packages/angular_devkit/build_angular/src/protractor *)
(* /index.ts): run() validates the options and returns the rxjs chain      *)
(*   of(null) | concatMap(dev server) | concatMap(webdriver update)        *)
(*            | concatMap(protractor) | take(1).                           *)
(* The model follows the chain notification by notification: every action  *)
(* is one external notification (a call of run, a subscription, an event   *)
(* of the dev server, the settling of the update promise, a notification   *)
(* of the forked protractor) together with everything rxjs does            *)
(* synchronously in response to it.                                        *)
(*                                                                         *)
(* Text values (option strings, urls) are sequences of tokens, e.g.        *)
(* <<"http", "://", "localhost", ":", "4200">>; the empty string is <<>>.  *)
(*                                                                         *)
(* Spec is the pipeline in a small environment, SpecUrl the same pipeline  *)
(* over a wide range of dev server addresses, SpecFair the pipeline with   *)
(* sub-tasks that deliver their outcomes.                                  *)
(***************************************************************************)
EXTENDS Integers, Sequences, FiniteSets, TLC

\* Bounds of the model.
MaxDevEvents == 2   \* events one dev server subscription may deliver

\* JavaScript undefined, encoded as a reserved token sequence so that every
\* option value is a sequence.
Undefined == <<"<undefined>">>

\* JavaScript truthiness of a string-or-undefined value.
Truthy(v) == v # Undefined /\ v # <<>>

\* buildEvent.result === undefined (no port reported)
NoResult == "<no result>"

\* the port the dev server reports in result.port
Ports == {"4200"}

Hosts == {<<"localhost">>}

DevServerTargets == {Undefined, <<"app:serve">>}

BaseUrls == {Undefined, <<>>, <<"http", "://", "myhost", ":", "9000">>}

PublicHosts == {Undefined, <<"example.com">>, <<"https", "://", "example.com">>}

SpecLists == {<<>>, <<"a.e2e-spec.ts", "b.e2e-spec.ts">>}

Suites == {Undefined, <<"smoke">>}

\* The protractor arguments of the options come in two profiles: none given,
\* and all given.
ProtractorArguments(o) ==
    \/ o.specs = <<>> /\ o.suite = Undefined /\ ~o.elementExplorer
    \/ o.specs # <<>> /\ o.suite # Undefined /\ o.elementExplorer

\* interface ProtractorBuilderOptions (the fields the builder reads)
ProtractorBuilderOptions ==
    {o \in [devServerTarget : DevServerTargets,
            baseUrl         : BaseUrls,
            webdriverUpdate : BOOLEAN,
            host            : Hosts,
            specs           : SpecLists,
            suite           : Suites,
            elementExplorer : BOOLEAN] : ProtractorArguments(o)}

\* tokens made of word characters only (\w+)
Words == {"http", "https", "HTTPS"}

\* String.prototype.toLowerCase on the tokens of the model
LowerCase(token) ==
    CASE token = "HTTPS" -> "https"
      [] token = "Example.COM" -> "example.com"
      [] OTHER -> token

\* protocols after which url.parse sets an empty pathname to "/"
SlashedProtocols == {"http", "https"}

\* /^\w+:\/\//.test(publicHost)
HasScheme(publicHost) ==
    Len(publicHost) >= 2 /\ publicHost[1] \in Words /\ publicHost[2] = "://"

\* builderConfig.options of the dev server target (the fields the tap reads)
DevServerBuilderOptions == [ssl : BOOLEAN, publicHost : PublicHosts]

\* The dev server configurations of the workspaces the pipeline is run in.
WorkspaceDevServers ==
    {[ssl |-> FALSE, publicHost |-> Undefined],
     [ssl |-> TRUE,  publicHost |-> <<"example.com">>],
     [ssl |-> FALSE, publicHost |-> <<"https", "://", "example.com">>]}

\* What requireProjectModule finds of webdriver-manager: nested under
\* protractor (npm), at the top level (yarn), or nowhere.
Layouts == {"nested", "top", "none"}

\* A BuildEvent of the dev server: its success flag and result.port; the
\* result of a failed event is never read.
DevBuildEvents ==
    {e \in [success : BOOLEAN, port : Ports \cup {NoResult}] :
        ~e.success => e.port = NoResult}

VARIABLES
    options,     \* builderConfig.options: the caller's object, shared by every run
    installed,   \* which webdriver-manager layouts requireProjectModule resolves
    builderConfig, \* the dev server's resolved configuration (its options)
    given,       \* the options as they were when the current run() was called
    phase,       \* "idle", "returned" (observable not subscribed), "active", "done"
    result,      \* the terminal notification of the current run
    delivered,   \* BuildEvents delivered to the subscriber in the current run
    dev,         \* the dev server subscription
    devLog,      \* the events the dev server subscription has delivered, in order
    cm2,         \* concatMap of the update stage: buffer, active inner, outer done
    cm3,         \* concatMap of the run stage: buffer, active inner, outer done
    log,         \* side effects of the current run, in order
    spawned,     \* additionalProtractorConfig of every protractor fork of the run
    updateCalls  \* the calls of webdriverUpdate.program.run made in the run

vars == <<options, installed, builderConfig, given, phase, result, delivered,
          dev, devLog, cm2, cm3, log, spawned, updateCalls>>

----
\* url handling of _startDevServer

\* Mutant: the public host is not normalised by url.parse and url.format.
UrlParseFormat_Verbatim(text) == text

\* url.format(url.parse(text)) for scheme://host[:port][path]: the href of the
\* parsed url, whose protocol and host are in lower case and whose pathname
\* is "/" when the text has none.
UrlParseFormat(text) ==
    LET hasPort == Len(text) >= 5 /\ text[4] = ":"
        hostEnd == IF hasPort THEN 5 ELSE 3
        lowered == [i \in DOMAIN text |->
                       IF i \in {1, 3} THEN LowerCase(text[i]) ELSE text[i]]
    IN  IF ~HasScheme(text) THEN text
        ELSE IF lowered[1] \in SlashedProtocols /\ Len(text) = hostEnd
             THEN lowered \o <<"/">>
             ELSE lowered

\* url.format({ protocol, hostname, port })
UrlFormat(protocol, hostname, port) ==
    <<protocol, "://">> \o hostname
        \o (IF port = NoResult THEN <<>> ELSE <<":", port>>)

\* Mutant: the ssl option is not consulted.
Scheme_AlwaysHttp(devOptions) == "http"

Scheme(devOptions) == IF devOptions.ssl THEN "https" ELSE "http"

\* "Compute baseUrl from devServerOptions"
ComputeBaseUrl(devOptions, host, buildEvent) ==
    IF Truthy(devOptions.publicHost)
    THEN LET publicHost == IF HasScheme(devOptions.publicHost)
                           THEN devOptions.publicHost
                           ELSE <<Scheme(devOptions), "://">> \o devOptions.publicHost
         IN  UrlParseFormat(publicHost)
    ELSE UrlFormat(Scheme(devOptions), host, buildEvent.port)

\* Mutant: the early return on a failed event is missing.
TapBuildEvent_NoReturn(o, devOptions, buildEvent) ==
    [o EXCEPT !.baseUrl = ComputeBaseUrl(devOptions, o.host, buildEvent)]

\* Mutant: the address computed is not written into the options.
TapBuildEvent_NoWrite(o, devOptions, buildEvent) == o

\* The tap of _startDevServer: the options after one dev server event.
TapBuildEvent(o, devOptions, buildEvent) ==
    IF ~buildEvent.success
    THEN o
    ELSE [o EXCEPT !.baseUrl = ComputeBaseUrl(devOptions, o.host, buildEvent)]

----
\* The state of one subscription of the chain, as a record the synchronous
\* cascades of rxjs are computed on.

NoResultYet == [kind |-> "none", success |-> FALSE, cause |-> "none"]

Idle == [buf |-> 0, active |-> FALSE, done |-> FALSE]

Chain ==
    [phase |-> phase, result |-> result, delivered |-> delivered, dev |-> dev,
     cm2 |-> cm2, cm3 |-> cm3, log |-> log, spawned |-> spawned,
     updateCalls |-> updateCalls]

\* Mutant: the dev server's subscription is left open when the chain ends.
Stop_DevServerKept(c, res) ==
    [c EXCEPT !.phase = "done",
              !.result = res,
              !.cm2 = Idle,
              !.cm3 = Idle,
              !.log = IF c.cm3.active THEN Append(c.log, "kill") ELSE c.log]

\* The chain ends with the terminal notification res: the subscriber is
\* told, and every inner subscription still open is unsubscribed (the dev
\* server's and the fork's teardown run; a pending promise cannot be
\* cancelled: it settles later with nobody listening).
Stop(c, res) ==
    [c EXCEPT !.phase = "done",
              !.result = res,
              !.dev = IF c.dev \in {"resolving", "running"} THEN "unsubscribed" ELSE c.dev,
              !.cm2 = Idle,
              !.cm3 = Idle,
              !.log = IF c.cm3.active THEN Append(c.log, "kill") ELSE c.log]

Failure(cause) == [kind |-> "error", success |-> FALSE, cause |-> cause]

Completion == [kind |-> "complete", success |-> FALSE, cause |-> "none"]

\* Mutant: an empty specs list is handed over as it is.
RunProtractor_SpecsAsGiven(c, o) ==
    [c EXCEPT !.cm3.active = TRUE,
              !.log = Append(c.log, "spawn"),
              !.spawned = Append(c.spawned,
                  [elementExplorer |-> o.elementExplorer,
                   baseUrl |-> o.baseUrl,
                   specs |-> o.specs,
                   suite |-> o.suite])]

\* _runProtractor: the additional config is read from the options now, and
\* the launcher is forked.
RunProtractor(c, o) ==
    [c EXCEPT !.cm3.active = TRUE,
              !.log = Append(c.log, "spawn"),
              !.spawned = Append(c.spawned,
                  [elementExplorer |-> o.elementExplorer,
                   baseUrl |-> o.baseUrl,
                   specs |-> IF Len(o.specs) # 0 THEN o.specs ELSE Undefined,
                   suite |-> o.suite])]

\* Mutant: the run stage forks for every value at once (mergeMap).
RunStage_NoQueue(c, o) == RunProtractor(c, o)

\* concatMap(() => this._runProtractor(root, options)) receives a value:
\* projected at once when no fork is active, buffered otherwise.
RunStage(c, o) ==
    IF c.cm3.active
    THEN [c EXCEPT !.cm3.buf = c.cm3.buf + 1]
    ELSE RunProtractor(c, o)

\* The source of the run stage's concatMap has completed.
RunStageSourceDone(c) ==
    IF c.phase # "active" THEN c
    ELSE IF ~c.cm3.active /\ c.cm3.buf = 0
         THEN Stop(c, Completion)
         ELSE [c EXCEPT !.cm3.done = TRUE]

\* The arguments of webdriverUpdate.program.run
UpdateArguments == [standalone |-> FALSE, gecko |-> FALSE, quiet |-> TRUE]

\* from(webdriverUpdate.program.run({...})) on the module found in layout:
\* the update is called and its promise waited for.
ProgramRun(c, layout) ==
    [c EXCEPT !.cm2.active = TRUE,
              !.log = Append(c.log, IF layout = "nested" THEN "update:nested"
                                                         ELSE "update:top"),
              !.updateCalls = Append(c.updateCalls,
                                     [module |-> layout, args |-> UpdateArguments])]

\* Mutant: the throw of the inner catch is missing, the update goes on as if
\* the top-level probe had resolved.
UpdateWebdriver_NoThrow(c, fs) ==
    LET c1 == [c EXCEPT !.log = Append(c.log, "probeNested")]
        c2 == [c1 EXCEPT !.log = Append(c1.log, "probeTop")]
    IN  IF fs = "nested"
        THEN ProgramRun(c1, "nested")
        ELSE ProgramRun(c2, "top")

\* Mutant: the top-level layout is probed before the one under protractor.
UpdateWebdriver_TopFirst(c, fs) ==
    LET c1 == [c EXCEPT !.log = Append(c.log, "probeTop")]
        c2 == [c1 EXCEPT !.log = Append(c1.log, "probeNested")]
    IN  IF fs = "top"
        THEN ProgramRun(c1, "top")
        ELSE IF fs = "nested"
             THEN ProgramRun(c2, "nested")
             ELSE Stop(c2, Failure("toolNotFound"))

\* _updateWebdriver: probe the layout under protractor, then the top-level
\* one; throw when neither resolves, else call program.run of the module
\* found and wait for its promise.
UpdateWebdriver(c, fs) ==
    LET c1 == [c EXCEPT !.log = Append(c.log, "probeNested")]
        c2 == [c1 EXCEPT !.log = Append(c1.log, "probeTop")]
    IN  IF fs = "nested"
        THEN ProgramRun(c1, "nested")
        ELSE IF fs = "top"
             THEN ProgramRun(c2, "top")
             ELSE Stop(c2, Failure("toolNotFound"))

\* Mutant: the update is started but not waited for (the stage emits at once).
UpdateProject_NoWait(c, o, fs) ==
    IF o.webdriverUpdate
    THEN LET u == UpdateWebdriver(c, fs)
         IN  IF u.phase = "active" THEN RunStage(u, o) ELSE u
    ELSE RunStage(c, o)

\* Mutant: the webdriverUpdate option is not consulted.
UpdateProject_Always(c, o, fs) == UpdateWebdriver(c, fs)

\* The project function of the update stage's concatMap, for one value:
\* options.webdriverUpdate ? this._updateWebdriver(projectRoot) : of(null).
\* of(null) delivers its value to the run stage and completes at once.
UpdateProject(c, o, fs) ==
    IF o.webdriverUpdate
    THEN UpdateWebdriver(c, fs)
    ELSE RunStage(c, o)

\* The update stage's concatMap receives a value.
UpdateStage(c, o, fs) ==
    IF c.cm2.active
    THEN [c EXCEPT !.cm2.buf = c.cm2.buf + 1]
    ELSE UpdateProject(c, o, fs)

\* The source of the update stage's concatMap has completed.
UpdateStageSourceDone(c) ==
    IF c.phase # "active" THEN c
    ELSE IF ~c.cm2.active /\ c.cm2.buf = 0
         THEN RunStageSourceDone([c EXCEPT !.cm2.done = TRUE])
         ELSE [c EXCEPT !.cm2.done = TRUE]

\* The inner observable of the update stage has completed: the next
\* buffered value is projected, or the completion is passed on.
UpdateInnerDone(c, o, fs) ==
    IF c.phase # "active" THEN c
    ELSE LET c1 == [c EXCEPT !.cm2.active = FALSE]
         IN  IF c1.cm2.buf > 0
             THEN UpdateProject([c1 EXCEPT !.cm2.buf = c1.cm2.buf - 1], o, fs)
             ELSE IF c1.cm2.done THEN RunStageSourceDone(c1) ELSE c1

\* The fork's observable has completed without the chain having ended.
RunInnerDone(c, o) ==
    LET c1 == [c EXCEPT !.cm3.active = FALSE]
    IN  IF c1.cm3.buf > 0
        THEN RunProtractor([c1 EXCEPT !.cm3.buf = c1.cm3.buf - 1], o)
        ELSE IF c1.cm3.done THEN Stop(c1, Completion) ELSE c1

\* Mutant: take(1) is missing, the first value is delivered and the chain
\* goes on listening.
TakeOne_Missing(c, success) ==
    IF c.delivered = 0
    THEN [c EXCEPT !.delivered = 1,
                   !.result = [kind |-> "event", success |-> success, cause |-> "none"]]
    ELSE c

\* take(1): the first value is delivered and the chain completes.
TakeOne(c, success) ==
    Stop([c EXCEPT !.delivered = c.delivered + 1],
         [kind |-> "event", success |-> success, cause |-> "none"])

\* Mutant: the check of the two options is dropped.
ConfigurationConflict_Dropped(o) == FALSE

\* "ensure that either one of this option is used"
ConfigurationConflict(o) == Truthy(o.devServerTarget) /\ Truthy(o.baseUrl)

\* The variables of the chain take the values of the record c.
Commit(c) ==
    /\ phase' = c.phase
    /\ result' = c.result
    /\ delivered' = c.delivered
    /\ dev' = c.dev
    /\ cm2' = c.cm2
    /\ cm3' = c.cm3
    /\ log' = c.log
    /\ spawned' = c.spawned
    /\ updateCalls' = c.updateCalls

----
Init ==
    /\ options \in ProtractorBuilderOptions
    /\ installed \in Layouts
    /\ builderConfig \in WorkspaceDevServers
    /\ given = options
    /\ phase = "idle"
    /\ result = NoResultYet
    /\ delivered = 0
    /\ dev = "off"
    /\ devLog = <<>>
    /\ cm2 = Idle
    /\ cm3 = Idle
    /\ log = <<>>
    /\ spawned = <<>>
    /\ updateCalls = <<>>

\* The chain of a run() that has just been called.
Fresh ==
    [phase |-> "returned", result |-> NoResultYet, delivered |-> 0, dev |-> "off",
     cm2 |-> Idle, cm3 |-> Idle, log |-> <<>>, spawned |-> <<>>,
     updateCalls |-> <<>>]

\* run(builderConfig), called for the first time or again on the same options
\* object once the previous run has ended: throws on conflicting options, else
\* returns the chain.
Run ==
    /\ phase \in {"idle", "done"}
    /\ given' = options
    /\ devLog' = <<>>
    /\ IF ConfigurationConflict(options)
       THEN Commit([Fresh EXCEPT !.phase = "done",
                                 !.result = [kind |-> "thrown", success |-> FALSE,
                                             cause |-> "conflict"]])
       ELSE Commit(Fresh)
    /\ UNCHANGED <<options, installed, builderConfig>>

\* The caller subscribes: of(null) emits and completes, the first concatMap
\* projects it to _startDevServer(options) or to of(null).
Subscribe ==
    /\ phase = "returned"
    /\ IF Truthy(options.devServerTarget)
       THEN Commit([Chain EXCEPT !.phase = "active", !.dev = "resolving",
                                 !.log = Append(log, "devStart")])
       ELSE Commit(UpdateStageSourceDone(
                UpdateStage([Chain EXCEPT !.phase = "active"], options, installed)))
    /\ UNCHANGED <<options, installed, builderConfig, given, devLog>>

\* getBuilderDescription, validateBuilderOptions and getBuilder succeed and
\* the dev server builder is run.
DevServerStarts ==
    /\ phase = "active" /\ dev = "resolving"
    /\ Commit([Chain EXCEPT !.dev = "running"])
    /\ UNCHANGED <<options, installed, builderConfig, given, devLog>>

\* The description or the validation of the dev server target fails.
DevServerInvalid ==
    /\ phase = "active" /\ dev = "resolving"
    /\ Commit(Stop(Chain, Failure("invalidServiceConfig")))
    /\ UNCHANGED <<options, installed, builderConfig, given, devLog>>

\* The dev server delivers a BuildEvent, one of events: the tap runs, then
\* the event goes on to the update stage.
DevServerEventFrom(events) ==
    /\ phase = "active" /\ dev = "running"
    /\ Len(devLog) < MaxDevEvents
    /\ \E buildEvent \in events :
          LET o == TapBuildEvent(options, builderConfig, buildEvent)
              c == [Chain EXCEPT !.log = IF buildEvent.success
                                         THEN log \o <<"devOk", "write">>
                                         ELSE Append(log, "devFail")]
          IN  /\ options' = o
              /\ devLog' = Append(devLog, buildEvent)
              /\ Commit(UpdateStage(c, o, installed))
    /\ UNCHANGED <<installed, builderConfig, given>>

DevServerEvent == DevServerEventFrom(DevBuildEvents)

\* The dev server's observable completes.
DevServerCompletes ==
    /\ phase = "active" /\ dev = "running"
    /\ Commit(UpdateStageSourceDone([Chain EXCEPT !.dev = "completed"]))
    /\ UNCHANGED <<options, installed, builderConfig, given, devLog>>

\* The dev server's observable errors.
DevServerErrors ==
    /\ phase = "active" /\ dev = "running"
    /\ Commit(Stop([Chain EXCEPT !.dev = "errored"], Failure("devServer")))
    /\ UNCHANGED <<options, installed, builderConfig, given, devLog>>

\* The promise of webdriverUpdate.program.run resolves: from(promise) emits
\* and completes.
UpdateResolves ==
    /\ phase = "active" /\ cm2.active
    /\ Commit(UpdateInnerDone(
           RunStage([Chain EXCEPT !.log = Append(log, "updateDone")], options),
           options, installed))
    /\ UNCHANGED <<options, installed, builderConfig, given, devLog>>

\* The promise rejects.
UpdateRejects ==
    /\ phase = "active" /\ cm2.active
    /\ Commit(Stop([Chain EXCEPT !.cm2.active = FALSE], Failure("update")))
    /\ UNCHANGED <<options, installed, builderConfig, given, devLog>>

\* The fork delivers a BuildEvent.
ProtractorEvent ==
    /\ phase = "active" /\ cm3.active
    /\ \E success \in BOOLEAN : Commit(TakeOne(Chain, success))
    /\ UNCHANGED <<options, installed, builderConfig, given, devLog>>

\* The fork's observable completes without a BuildEvent.
ProtractorCompletes ==
    /\ phase = "active" /\ cm3.active
    /\ Commit(RunInnerDone([Chain EXCEPT !.log = Append(log, "forkDone")], options))
    /\ UNCHANGED <<options, installed, builderConfig, given, devLog>>

\* The fork's observable errors.
ProtractorErrors ==
    /\ phase = "active" /\ cm3.active
    /\ Commit(Stop([Chain EXCEPT !.cm3.active = FALSE], Failure("protractor")))
    /\ UNCHANGED <<options, installed, builderConfig, given, devLog>>

Next ==
    \/ Run
    \/ Subscribe
    \/ DevServerStarts
    \/ DevServerInvalid
    \/ DevServerEvent
    \/ DevServerCompletes
    \/ DevServerErrors
    \/ UpdateResolves
    \/ UpdateRejects
    \/ ProtractorEvent
    \/ ProtractorCompletes
    \/ ProtractorErrors

Spec == Init /\ [][Next]_vars

\* ---------------------------------------------------------------------------
\* The pipeline over a wide range of dev server addresses: the e2e target
\* names a dev server and skips the webdriver update; hosts, ports, ssl and
\* public hosts vary freely.

UrlHosts == {<<"localhost">>, <<"0.0.0.0">>}

UrlPorts == {"4200", "8080"}

UrlPublicHosts ==
    {Undefined,
     <<"example.com">>,
     <<"example.com", ":", "8443">>,
     <<"http", "://", "example.com">>,
     <<"https", "://", "example.com", ":", "8443">>,
     <<"https", "://", "example.com", "/app">>,
     <<"HTTPS", "://", "Example.COM", "/">>}

UrlBuilderOptions ==
    [devServerTarget : {<<"app:serve">>},
     baseUrl         : {Undefined},
     webdriverUpdate : {FALSE},
     host            : UrlHosts,
     specs           : {<<>>},
     suite           : {Undefined},
     elementExplorer : {FALSE}]

UrlDevServers == [ssl : BOOLEAN, publicHost : UrlPublicHosts]

UrlBuildEvents ==
    {[success |-> FALSE, port |-> NoResult]}
        \cup [success : {TRUE}, port : UrlPorts \cup {NoResult}]

InitUrl ==
    /\ options \in UrlBuilderOptions
    /\ installed = "nested"
    /\ builderConfig \in UrlDevServers
    /\ given = options
    /\ phase = "idle"
    /\ result = NoResultYet
    /\ delivered = 0
    /\ dev = "off"
    /\ devLog = <<>>
    /\ cm2 = Idle
    /\ cm3 = Idle
    /\ log = <<>>
    /\ spawned = <<>>
    /\ updateCalls = <<>>

UrlDevServerEvent == DevServerEventFrom(UrlBuildEvents)

NextUrl ==
    \/ Run
    \/ Subscribe
    \/ DevServerStarts
    \/ DevServerInvalid
    \/ UrlDevServerEvent
    \/ DevServerCompletes
    \/ DevServerErrors
    \/ ProtractorEvent
    \/ ProtractorCompletes
    \/ ProtractorErrors

SpecUrl == InitUrl /\ [][NextUrl]_vars

----
\* Properties

Has(entry) == \E i \in DOMAIN log : log[i] = entry

Count(entry) == Cardinality({i \in DOMAIN log : log[i] = entry})

DevEntries == {"devOk", "devFail"}

UpdateEntries == {"probeNested", "probeTop", "update:nested", "update:top", "updateDone"}

BothSet(o) == Truthy(o.devServerTarget) /\ Truthy(o.baseUrl)

NothingStarted == dev = "off" /\ log = <<>> /\ spawned = <<>>

\* C1: a call of run() (the one step that leaves phase "idle" or "done") on
\* options with both devServerTarget and baseUrl set ends at once with the
\* thrown configuration-conflict error, and in the state it leaves the dev
\* server is not started, webdriver-manager not probed, protractor not forked.
C1_ConflictBeforeAnySubTask ==
    [][(BothSet(options) /\ phase \in {"idle", "done"})
          => /\ phase' = "done"
             /\ result' = [kind |-> "thrown", success |-> FALSE, cause |-> "conflict"]
             /\ NothingStarted']_vars

C1_Witness ==
    /\ result.kind = "thrown" /\ result.cause = "conflict"
    /\ BothSet(options) /\ options = given /\ NothingStarted

FirstEventFailed == Len(devLog) >= 1 /\ ~devLog[1].success

FailureResult ==
    \/ result.kind \in {"thrown", "error"}
    \/ result.kind = "event" /\ ~result.success

\* C2: when the first event of the dev server has success = false, the
\* update stage and the run stage are never started (no probe, no update
\* call, no fork) and the terminal result of the run is a failure.
C2_DevServerFailureAborts ==
    FirstEventFailed =>
        /\ \A i \in DOMAIN log : log[i] \notin UpdateEntries \cup {"spawn"}
        /\ phase = "done" => FailureResult

\* C3: every run delivers at most one BuildEvent, and every run that has
\* ended has produced exactly one terminal result (the event, an error or the
\* thrown conflict), never zero.
C3_ExactlyOneResult ==
    /\ delivered <= 1
    /\ phase = "done" => result.kind \in {"thrown", "error", "event"}

\* C4: the stages run in the order dev server, update, run. With
\* devServerTarget set, no probe or update call precedes the first event of
\* the dev server; with webdriverUpdate set, no fork precedes the completion
\* of an update; with devServerTarget unset the dev server is not started and
\* the options are left as given; with webdriverUpdate unset webdriver-manager
\* is neither probed nor called.
C4_StagesInOrder ==
    /\ Truthy(given.devServerTarget) =>
          \A i \in DOMAIN log : log[i] \in UpdateEntries \cup {"spawn"} =>
              \E j \in 1..(i - 1) : log[j] \in DevEntries
    /\ given.webdriverUpdate =>
          \A i \in DOMAIN log : log[i] = "spawn" =>
              \E j \in 1..(i - 1) : log[j] = "updateDone"
    /\ ~Truthy(given.devServerTarget) =>
          /\ dev = "off" /\ devLog = <<>> /\ options = given
          /\ \A i \in DOMAIN log : log[i] \notin DevEntries \cup {"devStart", "write"}
    /\ ~given.webdriverUpdate =>
          \A i \in DOMAIN log : log[i] \notin UpdateEntries

C4_Witness ==
    /\ Truthy(given.devServerTarget) /\ given.webdriverUpdate
    /\ Has("updateDone") /\ Has("spawn") /\ cm3.active

\* C5: when the update stage runs and neither layout of webdriver-manager
\* resolves, the run ends with the tool-not-found error and protractor is
\* never forked.
C5_ToolNotFound ==
    /\ (given.webdriverUpdate /\ installed = "none" /\ Has("probeNested")) =>
          /\ Has("probeTop")
          /\ phase = "done"
          /\ result = [kind |-> "error", success |-> FALSE, cause |-> "toolNotFound"]
          /\ ~Has("spawn") /\ ~Has("update:nested") /\ ~Has("update:top")
          /\ spawned = <<>>
    /\ result.cause = "toolNotFound" => installed = "none"

C5_Witness ==
    /\ given.webdriverUpdate /\ installed = "none"
    /\ Has("probeNested") /\ Has("probeTop")
    /\ result.cause = "toolNotFound" /\ phase = "done"

\* The entry of the log that follows the first dev server event (and the
\* write it made, if it was successful).
AfterFirstDevEvent ==
    LET i == CHOOSE k \in DOMAIN log :
                 log[k] \in DevEntries /\ \A j \in 1..(k - 1) : log[j] \notin DevEntries
        n == IF log[i] = "devOk" THEN i + 2 ELSE i + 1
    IN  IF n \in DOMAIN log THEN log[n] ELSE "nothing"

\* C6: with webdriverUpdate unset, webdriver-manager is never probed and its
\* update never called, and protractor is forked in the very step that ends
\* the dev server stage: right after the first dev server event, or, with
\* devServerTarget unset, as the first effect of the subscription.
C6_NoUpdateStage ==
    ~given.webdriverUpdate =>
        /\ \A i \in DOMAIN log : log[i] \notin UpdateEntries
        /\ (~Truthy(given.devServerTarget) /\ phase \in {"active", "done"}) =>
               log # <<>> /\ log[1] = "spawn"
        /\ (\E k \in DOMAIN log : log[k] \in DevEntries) => AfterFirstDevEvent = "spawn"

C6_Witness ==
    /\ ~given.webdriverUpdate /\ Truthy(given.devServerTarget)
    /\ Len(devLog) >= 1 /\ Len(spawned) = 1 /\ cm3.active

\* C7: an event of the dev server after its first one has no effect in the
\* pipeline: the step that receives it writes nothing to the options, probes
\* and updates nothing and forks nothing (the log gains the event and no
\* side effect).
C7_OnlyFirstEventTaken ==
    [][(Len(devLog) >= 1 /\ Len(devLog') = Len(devLog) + 1)
          => /\ options' = options
             /\ spawned' = spawned
             /\ Len(log') = Len(log) + 1]_vars

\* C8: a dev server event with success = false leaves every field of the
\* options as it was.
C8_FailedEventKeepsOptions ==
    [][(Len(devLog') = Len(devLog) + 1 /\ ~devLog'[Len(devLog')].success)
          => options' = options]_vars

C8_Witness ==
    /\ Len(devLog) >= 1 /\ ~devLog[Len(devLog)].success
    /\ Truthy(given.devServerTarget) /\ options = given /\ ~Has("write")

\* C9: in one run options.baseUrl is written exactly once when the dev
\* server stage succeeds (its first event is successful) and never otherwise.
C9_BaseUrlWrittenOnce ==
    Count("write") = (IF Len(devLog) >= 1 /\ devLog[1].success THEN 1 ELSE 0)

\* C10: the baseUrl of the additional config handed to the protractor fork
\* (the first fork of the run) is, with devServerTarget set and a successful
\* first dev server event, the address synthesized from that event, and with
\* devServerTarget unset the baseUrl the caller gave.
C10_RunStageConsumesBaseUrl ==
    spawned # <<>> =>
        /\ (Truthy(given.devServerTarget) /\ Len(devLog) >= 1 /\ devLog[1].success) =>
              spawned[1].baseUrl = ComputeBaseUrl(builderConfig, given.host, devLog[1])
        /\ ~Truthy(given.devServerTarget) => spawned[1].baseUrl = given.baseUrl

\* ---------------------------------------------------------------------------
\* The synthesized address (checked under SpecUrl).

\* The step in which the tap handles a successful dev server event.
SuccessfulEventStep ==
    Len(devLog') = Len(devLog) + 1 /\ devLog'[Len(devLog')].success

\* The last dev server event handled.
LastEvent == devLog[Len(devLog)]

\* The text ends in a path.
HasPath(text) == text[Len(text)] \in {"/", "/app"}

\* The public host with the scheme put before it when it has none.
Prefixed ==
    IF HasScheme(builderConfig.publicHost)
    THEN builderConfig.publicHost
    ELSE <<(IF builderConfig.ssl THEN "https" ELSE "http"), "://">>
             \o builderConfig.publicHost

\* C11 as stated: for every successful event of a dev server without
\* publicHost the address written is scheme://host:port, the scheme https
\* exactly when ssl is on, the host the host option of the e2e target, the
\* port the one of the event's result.
C11_SchemeHostPort ==
    [][(SuccessfulEventStep /\ ~Truthy(builderConfig.publicHost))
          => options'.baseUrl =
                <<(IF builderConfig.ssl THEN "https" ELSE "http"), "://">>
                    \o options.host \o <<":", devLog'[Len(devLog')].port>>]_vars

\* C11 amended: for every successful event of a dev server without
\* publicHost the address written is scheme://host:port when the event
\* carries a result and scheme://host, with no port part, when it carries
\* none; the scheme is https exactly when ssl is on and the host is the host
\* option of the e2e target.
C11_SchemeHostOptionalPort ==
    [][(SuccessfulEventStep /\ ~Truthy(builderConfig.publicHost))
          => LET e == devLog'[Len(devLog')]
                 scheme == IF builderConfig.ssl THEN "https" ELSE "http"
             IN  options'.baseUrl =
                    <<scheme, "://">> \o options.host
                        \o (IF e.port = NoResult THEN <<>> ELSE <<":", e.port>>)]_vars

C11_Witness ==
    /\ Len(devLog) >= 1 /\ LastEvent.success /\ LastEvent.port = "8080"
    /\ ~Truthy(builderConfig.publicHost) /\ builderConfig.ssl
    /\ options.baseUrl = <<"https", "://", "0.0.0.0", ":", "8080">>

SpawnStep == Len(spawned') = Len(spawned) + 1

\* C13: the additional config handed to the protractor fork has exactly the
\* four fields baseUrl, elementExplorer, suite and specs, read from the
\* options at the moment the run stage starts: baseUrl, elementExplorer and
\* suite as they are, specs as it is when non-empty and unset when empty.
C13_AdditionalConfig ==
    [][SpawnStep
          => LET config == spawned'[Len(spawned')]
             IN  /\ DOMAIN config = {"baseUrl", "elementExplorer", "suite", "specs"}
                 /\ config.baseUrl = options'.baseUrl
                 /\ config.elementExplorer = options'.elementExplorer
                 /\ config.suite = options'.suite
                 /\ config.specs = IF options'.specs = <<>> THEN Undefined
                                                            ELSE options'.specs]_vars

C13_Witness ==
    /\ Len(spawned) = 1 /\ options.specs = <<>> /\ spawned[1].specs = Undefined
    /\ Truthy(given.devServerTarget) /\ Truthy(spawned[1].baseUrl)
    /\ spawned[1].suite = Undefined

\* ---------------------------------------------------------------------------
\* Runs repeated on the same builder configuration (checked under Spec).

\* run() is called again on the configuration of a run that has ended, and
\* the new run ends in the call itself, no sub-task being asked anything.
RerunEndsAtOnce == phase = "done" /\ phase' = "done" /\ given' = options

\* C14: two runs on identical inputs with deterministic sub-tasks have the
\* same terminal outcome, the second run made after the first has finished
\* included: when run() is called again with the builder configuration of a
\* finished run and ends before any sub-task is asked anything, its success
\* flag and failure cause are those of the finished run.
C14_RerunRepeatsOutcome ==
    [][RerunEndsAtOnce
          => /\ result'.success = result.success
             /\ result'.cause = result.cause]_vars

\* ---------------------------------------------------------------------------
\* Stages in progress (checked under Spec).

\* The webdriver updates started so far in this run.
UpdatesStarted == Count("update:nested") + Count("update:top")

\* C15: in every state of a run whose dev server events are all successful,
\* runs with several such events included, the webdriver update is not executing while the protractor
\* fork is executing, and no second webdriver update has been started once
\* the first has completed.
C15_StagesNeverOverlap ==
    (\A i \in DOMAIN devLog : devLog[i].success)
        => /\ ~(cm2.active /\ cm3.active)
           /\ Has("updateDone") => UpdatesStarted <= 1

\* ---------------------------------------------------------------------------
\* The dev server at the end of the run (checked under Spec).

Added == IF Len(log') > Len(log) THEN SubSeq(log', Len(log) + 1, Len(log')) ELSE <<>>

\* The step calls run() (the log starts afresh).
RunStep == phase \in {"idle", "done"}

\* C17: every time the update stage runs, the layout under protractor is
\* probed first and the top-level one only when that probe failed; the
\* module that resolved first is the one whose program.run is called, once,
\* with standalone = false, gecko = false and quiet = true; when neither
\* resolves nothing is called; and no update is called in any other step.
C17_ProbeOrder ==
    [][/\ \A i \in DOMAIN Added :
            Added[i] = "probeNested"
               => LET tail == SubSeq(Added, i, Len(Added))
                      call(layout) ==
                          Append(updateCalls,
                                 [module |-> layout,
                                  args |-> [standalone |-> FALSE, gecko |-> FALSE,
                                            quiet |-> TRUE]])
                  IN  CASE installed = "nested" ->
                             /\ tail = <<"probeNested", "update:nested">>
                             /\ updateCalls' = call("nested")
                        [] installed = "top" ->
                             /\ tail = <<"probeNested", "probeTop", "update:top">>
                             /\ updateCalls' = call("top")
                        [] OTHER ->
                             /\ tail = <<"probeNested", "probeTop">>
                             /\ updateCalls' = updateCalls
       /\ \A i \in DOMAIN Added :
            Added[i] \in {"probeTop", "update:nested", "update:top"}
               => \E j \in 1..(i - 1) : Added[j] = "probeNested"
       /\ (~RunStep /\ \A i \in DOMAIN Added : Added[i] # "probeNested")
               => updateCalls' = updateCalls]_vars

C17_Witness ==
    /\ installed = "top" /\ Len(updateCalls) = 1 /\ updateCalls[1].module = "top"
    /\ updateCalls[1].args = [standalone |-> FALSE, gecko |-> FALSE, quiet |-> TRUE]
    /\ Has("probeNested") /\ Has("probeTop") /\ Has("update:top") /\ Has("spawn")

\* C18: once a run with devServerTarget set has ended after a successful
\* dev server event, the options object has both devServerTarget and baseUrl
\* set, and calling run() again with it ends at once with the thrown
\* configuration-conflict error, nothing having been started.
C18_SecondRunConflicts ==
    [][(phase = "done" /\ \E i \in DOMAIN devLog : devLog[i].success)
          => /\ BothSet(options)
             /\ phase' = "done"
             /\ result' = [kind |-> "thrown", success |-> FALSE, cause |-> "conflict"]
             /\ NothingStarted']_vars

C18_Witness ==
    /\ phase = "done" /\ result.kind = "thrown" /\ result.cause = "conflict"
    /\ NothingStarted /\ Truthy(options.devServerTarget)
    /\ options.baseUrl = <<"http", "://", "localhost", ":", "4200">>

\* C19: protractor is forked at most once in a run, whatever the
\* interleaving of dev server events, update completions and the fork's
\* completion, provided no fork has ended without delivering its event (an
\* event ends the run, so a fork that has ended in a run still going on has
\* delivered none).
C19_AtMostOneSpawn ==
    ~Has("forkDone") => Len(spawned) <= 1

C19_Witness ==
    /\ phase = "done" /\ result.kind = "event" /\ delivered = 1
    /\ Count("devOk") = 2 /\ Has("updateDone") /\ ~Has("forkDone")
    /\ Len(spawned) = 1

\* ---------------------------------------------------------------------------
\* Termination. Every sub-task the run has started delivers an outcome: the
\* dev server target is resolved or refused, a running dev server that has
\* emitted nothing emits, errors or completes, a pending webdriver update
\* settles, a running protractor fork delivers its event.

FirstDevServerOutcome ==
    devLog = <<>> /\ (DevServerEvent \/ DevServerErrors \/ DevServerCompletes)

SubTasksDeliver ==
    /\ WF_vars(DevServerStarts \/ DevServerInvalid)
    /\ WF_vars(FirstDevServerOutcome)
    /\ WF_vars(UpdateResolves \/ UpdateRejects)
    /\ WF_vars(ProtractorEvent)

\* The runs whose termination is followed: no baseUrl given, no specs, a dev
\* server without publicHost (none of them is read by the stages' control flow
\* once run() has not thrown).
InitFair ==
    /\ Init
    /\ options.baseUrl = Undefined
    /\ options.specs = <<>>
    /\ builderConfig = [ssl |-> FALSE, publicHost |-> Undefined]

SpecFair == InitFair /\ [][Next]_vars /\ SubTasksDeliver

\* C20: when every sub-task the run starts delivers an outcome, a run that
\* has been subscribed to reaches its terminal result; the one other way out
\* is a protractor fork that ends without delivering its event.
C20_RunTerminates ==
    (phase = "active") ~> (phase = "done" \/ Has("forkDone"))

C20_Witness ==
    /\ phase = "done" /\ result.kind = "event" /\ ~Has("forkDone")
    /\ Has("devOk") /\ Has("updateDone") /\ Has("spawn") /\ Len(devLog) = 1

====
